---- MODULE Spec2Model ----
(***************************************************************************)
(* A model of tadpole: the asynchronous GitHub crawler (main.py,           *)
(* helpers.py) and the dedup / scoring pipeline (process_pipeline.py).     *)
(*                                                                         *)
(* Crawl: every coroutine is a task <<kind, repo, index>>.  A task's       *)
(* position inside make_api_request is fpc[t]; held[t] is the number of    *)
(* frames of make_api_request (the call and its recursive retries) that    *)
(* are inside `async with semaphore`.  One step of the model is one run    *)
(* of a coroutine between two suspension points of the event loop.         *)
(***************************************************************************)
EXTENDS Integers, Sequences, FiniteSets, TLC

(* ------------------------------ bounds -------------------------------- *)
\* items the search can return
MaxFound == 2
\* entries of a repository tree
MaxTree == 2
\* responses with X-RateLimit-Remaining: 0 the server sends in one run
MaxLockouts == 2
\* lines of the raw stream
MaxRaw == 3
\* calls of run_pipeline on one raw file
MaxRuns == 2
\* lines of a content that is scored
MaxLines == 4
\* entries of a tree the file filter is run on by itself
MaxUnitTree == 3
\* settings.MAX_CONCURRENT_REQUESTS, the capacity of the gate (20 in
\* settings.py, scaled down)
MAX_CONCURRENT_REQUESTS == 2

(* ------------------- settings.py (scaled where noted) ------------------ *)
\* settings.MAX_REPOS_TO_PROCESS (20 in settings.py, scaled down)
MAX_REPOS_TO_PROCESS == 2
\* settings.MAX_FILES_PER_REPO (50 in settings.py, scaled down)
MAX_FILES_PER_REPO == 2
RATE_LIMIT_SLEEP_BUFFER == 5
MIN_FILE_LINES == 10
DEDUPLICATION_SCOPE == "file"
MAX_FILE_SIZE == 1048576
REQUIRED_LICENSES ==
    {"mit", "apache-2.0", "gpl-2.0", "gpl-3.0", "lgpl-2.1", "lgpl-3.0",
     "bsd-3-clause", "bsd-2-clause"}
TARGET_EXTENSIONS == {".py"}
EXCLUDED_DIRS ==
    {"site-packages", "node_modules", "vendor", ".git", "dist", "build",
     "__pycache__", "test", "tests", "example", "examples", "doc", "docs",
     ".venv", "env", "venv"}

(* ------------------------------ helpers ------------------------------- *)
Max(a, b) == IF a >= b THEN a ELSE b
Min(a, b) == IF a <= b THEN a ELSE b

\* a header or JSON key that is not there (Python None) where a number is read
Absent == -1

RECURSIVE SumOver(_, _)
SumOver(f, S) ==
    IF S = {} THEN 0
    ELSE LET x == CHOOSE y \in S : TRUE IN f[x] + SumOver(f, S \ {x})

(* ------------------------------- tasks -------------------------------- *)
RepoIds == 1..MAX_REPOS_TO_PROCESS
FileIdx == 1..MAX_FILES_PER_REPO
SearchTask == <<"search", 0, 0>>
RepoTask(r) == <<"repo", r, 0>>
BlobTask(r, i) == <<"blob", r, i>>
RepoTasks == {RepoTask(r) : r \in RepoIds}
BlobTasks == {BlobTask(r, i) : r \in RepoIds, i \in FileIdx}
\* the callers of make_api_request
ApiTasks == RepoTasks \cup BlobTasks
Tasks == {SearchTask} \cup ApiTasks
NoTask == <<"none", 0, 0>>

VARIABLES
    mpc,        \* main(): "search", "gather", "done"
    found,      \* len(repos_to_process)
    permits,    \* the semaphore's value
    fpc,        \* task -> "idle","acquire","delay","io","sleep","returned","cancelled","done"
    held,       \* task -> frames of the task inside `async with semaphore`
    nreq,       \* task -> session.get calls of the logical fetch the task is in
    sleepTime,  \* task -> the sleep_time of the asyncio.sleep the task is in
    rpc,        \* repo -> process_repo: "idle","info","tree","await","returned","raised"
    branch,     \* repo -> default_branch ("None" before the repo info is read)
    lic,        \* repo -> repo_license ("None" before the repo info is read)
    tree,       \* repo -> "unset", or whether the tree get_repo_tree returned
                \*         is "None" or a "list" (its entries go to files)
    files,      \* repo -> files_to_process
    idx,        \* repo -> position of the `for task, file_info in blob_tasks` loop
    count,      \* repo -> files_processed_count
    bres,       \* blob task -> result of get_blob_content
    out,        \* the lines written to output_file_handle
    results,    \* repo -> the entry of `results` after gather
    total,      \* total_files_processed
    lockouts,   \* responses with Remaining 0 sent so far
    lastResp    \* the response handled by the latest step (NoResp if none)

crawlVars ==
    <<mpc, found, permits, fpc, held, nreq, sleepTime, rpc, branch, lic, tree,
      files, idx, count, bres, out, results, total, lockouts, lastResp>>

VARIABLES
    raw,                  \* the lines of RAW_OUTPUT_FILE
    ppc,                  \* run_pipeline: "stage1", "stage2", "done", "crashed"
    pos,                  \* lines of the raw stream read so far
    seen_content_hashes,
    processed_records,
    records_read,
    records_filtered,
    records_deduplicated,
    dedup_scope,          \* settings.DEDUPLICATION_SCOPE of the run
    hash_args,            \* the arguments calculate_content_hash was called with
    runs,                 \* calls of run_pipeline so far
    previous_output       \* processed_records of the call before this one

pipeVars ==
    <<raw, ppc, pos, seen_content_hashes, processed_records, records_read,
      records_filtered, records_deduplicated, dedup_scope, hash_args, runs,
      previous_output>>

VARIABLES
    upc,        \* a run of the file filter on one tree: "idle", "ready", "done"
    tree_data,  \* the tree process_repo iterates over
    verdicts,   \* position -> whether is_file_relevant accepted the entry
    blob_tasks  \* the file_info of every blob task process_repo created

VARIABLES
    spc,            \* a call of score_and_annotate: "idle", "ready", "done"
    scored_record,  \* its record: the kinds of the lines of the content and
                    \* whether the content holds a test keyword
    quality_score   \* record["quality_score"], in thousandths

scoreVars == <<spc, scored_record, quality_score>>

unitVars == <<upc, tree_data, verdicts, blob_tasks, scoreVars>>

vars == <<crawlVars, pipeVars, unitVars>>

(* ----------------------- what the server can send --------------------- *)
\* time.time() readings and X-RateLimit-Reset epochs
NowValues == {100}
ResetValues == {90, 110}

\* X-RateLimit-Remaining / X-RateLimit-Reset as GitHub sends them (both or
\* neither), and a Remaining of 0 that comes without a Reset
NoHeaders == [remaining |-> "absent", reset |-> Absent]
Headers ==
    {NoHeaders, [remaining |-> "5", reset |-> 110]}
    \cup {[remaining |-> "0", reset |-> e] : e \in ResetValues \cup {Absent}}

\* a response to session.get without its body: a status with headers and
\* content type, or a transport error (status 0); `now` is what time.time()
\* reads while the response is handled
Shell(st, err, h, js, n) ==
    [status |-> st, error |-> err, remaining |-> h.remaining, reset |-> h.reset,
     json |-> js, now |-> n]

AllShells ==
    {Shell(st, "none", h, TRUE, n) :
        st \in {200, 404, 403, 500}, h \in Headers, n \in NowValues}
    \cup {Shell(200, "none", h, FALSE, n) : h \in Headers, n \in NowValues}
    \cup {Shell(0, e, NoHeaders, FALSE, n) :
        e \in {"connection", "timeout"}, n \in NowValues}

\* a server that answers 200 or 404, with no rate-limit headers or with a
\* quota of zero, or drops the connection
PlainShells ==
    {s \in AllShells :
        /\ s.status \in {0, 200, 404}
        /\ s.error # "timeout"
        /\ s.json = (s.status # 0)
        /\ \/ s.remaining = "absent"
           \/ s.remaining = "0" /\ s.reset = 110 /\ s.status = 200}

\* GET /repos/{owner}/{repo}: default_branch ("" when the key is missing) and
\* license: no license object, an object whose spdx_id is null, or an spdx_id
NoLicense == "<no license>"
NullSpdx == "<null>"
RepoInfos ==
    {[default_branch |-> b, license |-> l] :
        b \in {"main", ""},
        l \in {NoLicense, NullSpdx, "MIT", "WTFPL", "NOASSERTION"}}

\* tree entries in the order git lists them: path as its "/"-separated
\* segments, size (Absent for trees)
TreeEntries ==
    <<[path |-> <<"B.PY">>, size |-> MAX_FILE_SIZE, type |-> "blob", sha |-> "sha_b"],
      [path |-> <<"src">>, size |-> Absent, type |-> "tree", sha |-> "sha_d"],
      [path |-> <<"src", "a.py">>, size |-> 120, type |-> "blob", sha |-> "sha_a"],
      [path |-> <<"tests", "t.py">>, size |-> 50, type |-> "blob", sha |-> "sha_t"]>>

\* the subsequence of TreeEntries at the positions S
RECURSIVE Pick(_, _)
Pick(S, i) ==
    IF i > Len(TreeEntries) THEN <<>>
    ELSE IF i \in S THEN <<TreeEntries[i]>> \o Pick(S, i + 1)
    ELSE Pick(S, i + 1)

\* the trees of at most n entries
TreesUpTo(n) ==
    {Pick(S, 1) : S \in {X \in SUBSET DOMAIN TreeEntries : Cardinality(X) <= n}}

\* GET .../git/blobs/{sha}: `content` is absent, or a string that is empty or
\* not, with good or bad base64 padding, carrying the bytes `payload`;
\* `object` is FALSE for a body that is a JSON list
BlobBody(obj, c, ne, pad, pl, enc) ==
    [object |-> obj, content |-> c, nonempty |-> ne, padOK |-> pad,
     payload |-> pl, encoding |-> enc]
BlobBodies ==
    {BlobBody(TRUE, FALSE, FALSE, TRUE, <<>>, "base64"),
     BlobBody(TRUE, TRUE, TRUE, TRUE, <<"xFF", "\n">>, "base64"),
     BlobBody(TRUE, TRUE, TRUE, TRUE, <<>>, "base64"),
     BlobBody(TRUE, TRUE, TRUE, FALSE, <<"xFF">>, "base64"),
     BlobBody(TRUE, TRUE, TRUE, TRUE, <<"a">>, "utf-8"),
     BlobBody(FALSE, FALSE, FALSE, TRUE, <<>>, "base64")}

\* What the server does in a run: the numbers of items the search returns,
\* the repo infos, the trees, the blob bodies, and the responses that carry
\* them
Env(items, infos, trees, blobs, shells) ==
    [items |-> items, infos |-> infos, trees |-> trees, blobs |-> blobs,
     shells |-> shells]

NoResp ==
    [task |-> NoTask, status |-> 0, error |-> "none", remaining |-> "absent",
     reset |-> Absent, json |-> FALSE, now |-> 0, outcome |-> "none"]

Seen(t, resp, o) ==
    [task |-> t, status |-> resp.status, error |-> resp.error,
     remaining |-> resp.remaining, reset |-> resp.reset, json |-> resp.json,
     now |-> resp.now, outcome |-> o]

(* --------------------------- helpers.py -------------------------------- *)
\* int(remaining)
ToInt(s) == IF s = "0" THEN 0 ELSE 5

\* a sleep_time without the max(0, ...)
SleepForUnfloored(resp) == (resp.reset - resp.now) + RATE_LIMIT_SLEEP_BUFFER

\* sleep_time = max(0, reset_timestamp - time.time()) + RATE_LIMIT_SLEEP_BUFFER
SleepFor(resp) == Max(0, resp.reset - resp.now) + RATE_LIMIT_SLEEP_BUFFER

\* make_api_request with raise_for_status ahead of the look at the headers
\* (an error status then always returns None)
ApiOutcomeStatusFirst(resp) ==
    IF resp.error # "none" THEN "none"
    ELSE IF resp.status >= 400 THEN "none"
    ELSE IF resp.remaining # "absent" /\ ToInt(resp.remaining) = 0
    THEN IF resp.reset = Absent THEN "none" ELSE "sleep"
    ELSE IF resp.json THEN "json"
    ELSE "none"

\* make_api_request that also sleeps and retries on a 5xx
ApiOutcomeRetry5xx(resp) ==
    IF resp.error # "none" THEN "none"
    ELSE IF resp.status >= 500 THEN "sleep"
    ELSE IF resp.remaining # "absent" /\ ToInt(resp.remaining) = 0
    THEN IF resp.reset = Absent THEN "none" ELSE "sleep"
    ELSE IF resp.status >= 400 THEN "none"
    ELSE IF resp.json THEN "json"
    ELSE "none"

\* make_api_request that returns the body of a successful JSON response
\* before it looks at the rate-limit headers
ApiOutcomeBodyFirst(resp) ==
    IF resp.error # "none" THEN "none"
    ELSE IF resp.status < 400 /\ resp.json THEN "json"
    ELSE IF resp.remaining # "absent" /\ ToInt(resp.remaining) = 0
    THEN IF resp.reset = Absent THEN "none" ELSE "sleep"
    ELSE "none"

\* One pass of make_api_request over a response: "sleep" (sleep, then the
\* recursive call), "json" (the decoded body is returned) or "none".
\* The 403 handler's own look at the headers (remaining == "0") can never
\* succeed: a response with Remaining 0 never reaches raise_for_status.
ApiOutcome(resp) ==
    IF resp.error # "none" THEN "none"
    ELSE IF resp.remaining # "absent" /\ ToInt(resp.remaining) = 0
    THEN IF resp.reset = Absent THEN "none" ELSE "sleep"
    ELSE IF resp.status >= 400 THEN "none"
    ELSE IF resp.json THEN "json"
    ELSE "none"

\* str.lower() / str.upper() on the license ids of the catalogue
Lower(s) ==
    CASE s = "MIT" -> "mit"
      [] s = "WTFPL" -> "wtfpl"
      [] s = "NOASSERTION" -> "noassertion"
      [] OTHER -> s
Upper(s) ==
    CASE s = "mit" -> "MIT"
      [] s = "wtfpl" -> "WTFPL"
      [] s = "noassertion" -> "NOASSERTION"
      [] OTHER -> s

\* repo_license of get_repo_tree
RepoLicense(info) ==
    IF info.license = NoLicense THEN "NOASSERTION" ELSE info.license

\* the license test without its NOASSERTION clause
LicenseRejectedNoExemption(l) ==
    /\ REQUIRED_LICENSES # {}
    /\ Lower(l) \notin REQUIRED_LICENSES

\* the license test of get_repo_tree: TRUE when the repository is skipped
LicenseRejected(l) ==
    /\ REQUIRED_LICENSES # {}
    /\ Lower(l) \notin REQUIRED_LICENSES
    /\ Upper(l) # "NOASSERTION"

\* str.lower() on a path segment, and the suffix test path.endswith(ext)
LowerName(s) ==
    CASE s = "B.PY" -> "b.py"
      [] s = "Tests" -> "tests"
      [] s = "README.md" -> "readme.md"
      [] OTHER -> s
EndsWith(s, ext) ==
    /\ ext = ".py"
    /\ s \in {"a.py", "b.py", "t.py", "docs.py"}

LowerPath(p) == [i \in DOMAIN p |-> LowerName(p[i])]

\* a filter whose size test is `size >= MAX_FILE_SIZE`
is_file_relevant_below(file_info) ==
    LET path == LowerPath(file_info.path)
        size == file_info.size
    IN  /\ file_info.type = "blob"
        /\ ~(size = Absent \/ size = 0 \/ size >= MAX_FILE_SIZE)
        /\ \E ext \in TARGET_EXTENSIONS : EndsWith(path[Len(path)], ext)
        /\ ~(\E i \in DOMAIN path : path[i] \in EXCLUDED_DIRS)

is_file_relevant(file_info) ==
    LET path == LowerPath(file_info.path)
        size == file_info.size
    IN  /\ file_info.type = "blob"
        /\ ~(size = Absent \/ size = 0 \/ size > MAX_FILE_SIZE)
        /\ \E ext \in TARGET_EXTENSIONS : EndsWith(path[Len(path)], ext)
        /\ ~(\E i \in DOMAIN path : path[i] \in EXCLUDED_DIRS)

\* bytes.decode("utf-8", errors="replace")
DecodeUtf8(bytes) ==
    [i \in DOMAIN bytes |-> IF bytes[i] = "xFF" THEN "uFFFD" ELSE bytes[i]]

\* the value of get_blob_content for the value of make_api_request
NoContent == [kind |-> "none", text |-> <<>>]
GetBlobContent(value, body) ==
    IF value = "none" THEN NoContent
    ELSE IF ~body.object THEN [kind |-> "exception", text |-> <<>>]
    ELSE IF body.content /\ body.nonempty /\ body.encoding = "base64"
    THEN IF body.padOK
         THEN [kind |-> "text", text |-> DecodeUtf8(body.payload)]
         ELSE NoContent
    ELSE IF body.content /\ body.nonempty
    THEN [kind |-> "text", text |-> body.payload]
    ELSE NoContent

(* ----------------------------- main.py --------------------------------- *)
\* a loop without the `break` at MAX_FILES_PER_REPO
RECURSIVE FilesToProcessNoBreak(_, _)
FilesToProcessNoBreak(entries, acc) ==
    IF entries = <<>> THEN acc
    ELSE FilesToProcessNoBreak(Tail(entries),
                               IF is_file_relevant(Head(entries))
                               THEN Append(acc, Head(entries)) ELSE acc)

\* the loop that fills files_to_process
RECURSIVE FilesToProcess(_, _)
FilesToProcess(entries, acc) ==
    IF entries = <<>> \/ Len(acc) >= MAX_FILES_PER_REPO THEN acc
    ELSE FilesToProcess(Tail(entries),
                        IF is_file_relevant(Head(entries))
                        THEN Append(acc, Head(entries)) ELSE acc)

(* ------------------------- the semaphore ------------------------------- *)
\* an acquire that also goes through at value 0
CanAcquireAtZero == permits >= 0

\* Semaphore.acquire returns only while the value is positive
CanAcquire == permits > 0

\* a gate that is released on return but not when the task is cancelled
PermitsReleasedUnlessCancelled(t, how) == IF how = "cancel" THEN 0 ELSE held[t]

\* leaving `async with semaphore`: every frame of the task releases its permit,
\* however the frame is left (return, exception, CancelledError)
PermitsReleased(t, how) == held[t]

HeldTotal == SumOver(held, Tasks)

(* ------------------------------ Init ------------------------------------ *)


CrawlInit ==
    /\ mpc = "search"
    /\ found = 0
    /\ permits = MAX_CONCURRENT_REQUESTS
    /\ fpc = [t \in Tasks |-> IF t = SearchTask THEN "acquire" ELSE "idle"]
    /\ held = [t \in Tasks |-> 0]
    /\ nreq = [t \in Tasks |-> 0]
    /\ sleepTime = [t \in Tasks |-> 0]
    /\ rpc = [r \in RepoIds |-> "idle"]
    /\ branch = [r \in RepoIds |-> "None"]
    /\ lic = [r \in RepoIds |-> "None"]
    /\ tree = [r \in RepoIds |-> "unset"]
    /\ files = [r \in RepoIds |-> <<>>]
    /\ idx = [r \in RepoIds |-> 0]
    /\ count = [r \in RepoIds |-> 0]
    /\ bres = [t \in BlobTasks |-> NoContent]
    /\ out = <<>>
    /\ results = [r \in RepoIds |-> [kind |-> "pending", n |-> 0]]
    /\ total = 0
    /\ lockouts = 0
    /\ lastResp = NoResp

\* no tree is being filtered on its own
NoRecord == [lines |-> <<>>, has_tests_keyword |-> FALSE]
ScoreIdle ==
    /\ spc = "idle"
    /\ scored_record = NoRecord
    /\ quality_score = 0

UnitIdle ==
    /\ upc = "idle"
    /\ tree_data = <<>>
    /\ verdicts = <<>>
    /\ blob_tasks = <<>>
    /\ ScoreIdle

\* the pipeline before run_pipeline is started
PipeIdle ==
    /\ raw = <<>>
    /\ ppc = "idle"
    /\ pos = 0
    /\ seen_content_hashes = {}
    /\ processed_records = <<>>
    /\ records_read = 0
    /\ records_filtered = 0
    /\ records_deduplicated = 0
    /\ dedup_scope = DEDUPLICATION_SCOPE
    /\ hash_args = {}
    /\ runs = 0
    /\ previous_output = <<>>

(* ---------------------- search_repositories ----------------------------- *)
\* `async with semaphore:` of search_repositories
SearchAcquire ==
    /\ mpc = "search" /\ fpc[SearchTask] = "acquire"
    /\ CanAcquire
    /\ permits' = permits - 1
    /\ held' = [held EXCEPT ![SearchTask] = 1]
    /\ fpc' = [fpc EXCEPT ![SearchTask] = "delay"]
    /\ lastResp' = NoResp
    /\ UNCHANGED <<pipeVars, unitVars>>
    /\ UNCHANGED <<mpc, found, nreq, sleepTime, rpc, branch, lic, tree, files,
                   idx, count, bres, out, results, total, lockouts>>

\* the polite delay is over: session.get is called
SearchIssue ==
    /\ fpc[SearchTask] = "delay"
    /\ fpc' = [fpc EXCEPT ![SearchTask] = "io"]
    /\ nreq' = [nreq EXCEPT ![SearchTask] = 1]
    /\ lastResp' = NoResp
    /\ UNCHANGED <<pipeVars, unitVars>>
    /\ UNCHANGED <<mpc, found, permits, held, sleepTime, rpc, branch, lic, tree,
                   files, idx, count, bres, out, results, total, lockouts>>

\* what search_repositories makes of a response: the items are returned
\* ("json") or [] is ("none"); the rate-limit headers are only logged
SearchOutcome(resp) ==
    IF resp.error = "none" /\ resp.status < 400 /\ resp.json
    THEN "json" ELSE "none"

\* the response (or the error) arrives; the permit is released; main() slices
\* the items to MAX_REPOS_TO_PROCESS and starts one process_repo per repository
SearchRespond(env) ==
    \E resp \in env.shells, items \in env.items :
        LET o == SearchOutcome(resp)
            n == IF o = "json" THEN Min(items, MAX_REPOS_TO_PROCESS) ELSE 0
        IN
        /\ fpc[SearchTask] = "io"
        /\ permits' = permits + PermitsReleased(SearchTask, o)
        /\ held' = [held EXCEPT ![SearchTask] = 0]
        /\ nreq' = [nreq EXCEPT ![SearchTask] = 0]
        /\ found' = n
        /\ mpc' = IF n = 0 THEN "done" ELSE "gather"
        /\ fpc' = [t \in Tasks |->
                     IF t = SearchTask THEN "done"
                     ELSE IF t \in {RepoTask(r) : r \in 1..n} THEN "acquire"
                     ELSE fpc[t]]
        /\ rpc' = [r \in RepoIds |-> IF r <= n THEN "info" ELSE rpc[r]]
        /\ lastResp' = Seen(SearchTask, resp, o)
        /\ UNCHANGED <<pipeVars, unitVars>>
        /\ UNCHANGED <<sleepTime, branch, lic, tree, files, idx, count, bres,
                       out, results, total, lockouts>>

(* ------------------------- make_api_request ----------------------------- *)
\* `async with semaphore:` of the call, or of the recursive call of a retry
Acquire(t) ==
    /\ fpc[t] = "acquire"
    /\ CanAcquire
    /\ permits' = permits - 1
    /\ held' = [held EXCEPT ![t] = held[t] + 1]
    /\ fpc' = [fpc EXCEPT ![t] = "delay"]
    /\ lastResp' = NoResp
    /\ UNCHANGED <<pipeVars, unitVars>>
    /\ UNCHANGED <<mpc, found, nreq, sleepTime, rpc, branch, lic, tree, files,
                   idx, count, bres, out, results, total, lockouts>>

\* asyncio.sleep(REQUEST_DELAY) is over: session.get is called
Issue(t) ==
    /\ fpc[t] = "delay"
    /\ fpc' = [fpc EXCEPT ![t] = "io"]
    /\ nreq' = [nreq EXCEPT ![t] = nreq[t] + 1]
    /\ lastResp' = NoResp
    /\ UNCHANGED <<pipeVars, unitVars>>
    /\ UNCHANGED <<mpc, found, permits, held, sleepTime, rpc, branch, lic, tree,
                   files, idx, count, bres, out, results, total, lockouts>>

\* the server sends a response with Remaining 0 at most MaxLockouts times
MaySend(resp) == resp.remaining = "0" => lockouts < MaxLockouts
Sent(resp) == IF resp.remaining = "0" THEN lockouts + 1 ELSE lockouts

\* a response reporting zero quota: the frame stays inside `async with
\* semaphore` and sleeps
RateLimited(t, env) ==
    \E resp \in env.shells :
        /\ fpc[t] = "io"
        /\ MaySend(resp)
        /\ ApiOutcome(resp) = "sleep"
        /\ lockouts' = Sent(resp)
        /\ fpc' = [fpc EXCEPT ![t] = "sleep"]
        /\ sleepTime' = [sleepTime EXCEPT ![t] = SleepFor(resp)]
        /\ lastResp' = Seen(t, resp, "sleep")
        /\ UNCHANGED <<pipeVars, unitVars>>
        /\ UNCHANGED <<mpc, found, permits, held, nreq, rpc, branch, lic, tree,
                       files, idx, count, bres, out, results, total>>

\* the sleep is over: `return await make_api_request(...)`, a new frame that
\* reaches `async with semaphore` while the sleeping frame keeps its permit
Retry(t) ==
    /\ fpc[t] = "sleep"
    /\ fpc' = [fpc EXCEPT ![t] = "acquire"]
    /\ sleepTime' = [sleepTime EXCEPT ![t] = 0]
    /\ lastResp' = NoResp
    /\ UNCHANGED <<pipeVars, unitVars>>
    /\ UNCHANGED <<mpc, found, permits, held, nreq, rpc, branch, lic, tree,
                   files, idx, count, bres, out, results, total, lockouts>>

\* make_api_request returns `value` ("json" or "none") for the response:
\* all frames of the task unwind
Returns(t, resp, value) ==
    /\ fpc[t] = "io"
    /\ MaySend(resp)
    /\ ApiOutcome(resp) = value
    /\ lockouts' = Sent(resp)
    /\ permits' = permits + PermitsReleased(t, value)
    /\ held' = [held EXCEPT ![t] = 0]
    /\ nreq' = [nreq EXCEPT ![t] = 0]
    /\ lastResp' = Seen(t, resp, value)
    /\ UNCHANGED <<pipeVars, unitVars>>
    /\ UNCHANGED <<mpc, found, sleepTime, out, results, total>>

(* ---------------------- get_repo_tree / process_repo -------------------- *)
\* the repo-info request of get_repo_tree returns; on a body with a default
\* branch the tree request follows, otherwise process_repo returns 0
RepoInfoReturn(r, env) ==
    \E resp \in env.shells, info \in env.infos, value \in {"json", "none"} :
        LET t == RepoTask(r)
            goon == value = "json" /\ info.default_branch # ""
        IN
        /\ rpc[r] = "info"
        /\ Returns(t, resp, value)
        /\ branch' = [branch EXCEPT ![r] =
                        IF value = "json" THEN info.default_branch ELSE branch[r]]
        /\ lic' = [lic EXCEPT ![r] =
                     IF value = "json" THEN RepoLicense(info) ELSE lic[r]]
        /\ rpc' = [rpc EXCEPT ![r] = IF goon THEN "tree" ELSE "returned"]
        /\ fpc' = [fpc EXCEPT ![t] = IF goon THEN "acquire" ELSE "done"]
        /\ UNCHANGED <<tree, files, idx, count, bres>>

\* the tree request returns; the license test, the filter loop and the
\* creation of the blob tasks run before process_repo suspends again
TreeReturn(r, env) ==
    \E resp \in env.shells, body \in env.trees, value \in {"json", "none"} :
        LET t == RepoTask(r)
            \* None.lower() raises AttributeError
            raises == REQUIRED_LICENSES # {} /\ lic[r] = NullSpdx
            none == LicenseRejected(lic[r])
            entries == IF value = "json" THEN body ELSE <<>>
            sel == IF none THEN <<>> ELSE FilesToProcess(entries, <<>>)
            stop == raises \/ sel = <<>>
        IN
        /\ rpc[r] = "tree"
        /\ Returns(t, resp, value)
        /\ tree' = [tree EXCEPT ![r] =
                      IF raises THEN tree[r]
                      ELSE IF none THEN "None" ELSE "list"]
        /\ rpc' = [rpc EXCEPT ![r] =
                     IF raises THEN "raised"
                     ELSE IF stop THEN "returned" ELSE "await"]
        /\ files' = [files EXCEPT ![r] = IF stop THEN <<>> ELSE sel]
        /\ idx' = [idx EXCEPT ![r] = IF stop THEN 0 ELSE 1]
        /\ fpc' = [x \in Tasks |->
                     IF x = t THEN "done"
                     ELSE IF ~stop /\ x \in {BlobTask(r, i) : i \in 1..Len(sel)}
                     THEN "acquire"
                     ELSE fpc[x]]
        /\ UNCHANGED <<branch, lic, count, bres>>

\* the request of a blob task returns and get_blob_content decodes the body
BlobReturn(r, i, env) ==
    \E resp \in env.shells, body \in env.blobs, value \in {"json", "none"} :
        LET t == BlobTask(r, i) IN
        /\ Returns(t, resp, value)
        /\ bres' = [bres EXCEPT ![t] = GetBlobContent(value, body)]
        /\ fpc' = [fpc EXCEPT ![t] = "returned"]
        /\ UNCHANGED <<rpc, branch, lic, tree, files, idx, count>>

\* the line process_repo writes for entry i of files_to_process
RawRecord(r, i, text) ==
    [repo |-> r, path |-> files[r][i].path, size |-> files[r][i].size,
     license |-> lic[r], content_sha |-> files[r][i].sha, content |-> text]

\* json.dumps of a string (ensure_ascii): the characters between the quotes; a
\* newline and a character outside ASCII are written as escapes
EscapeChar(c) ==
    IF c = "\n" THEN <<"\\", "n">>
    ELSE IF c = "uFFFD" THEN <<"\\", "ufffd">>
    ELSE <<c>>
RECURSIVE Escaped(_)
Escaped(text) ==
    IF text = <<>> THEN <<>> ELSE EscapeChar(Head(text)) \o Escaped(Tail(text))
JsonString(text) == <<"\"">> \o Escaped(text) \o <<"\"">>

\* json.dumps(output_data): the keys in the order of the dict, each with its
\* value (repo_url, path and findings written as one string token each)
JsonDumps(record) ==
    <<"{", "repo_url:">> \o JsonString(<<ToString(record.repo)>>)
    \o <<"path:">> \o JsonString(<<ToString(record.path)>>)
    \o <<"size:", ToString(record.size)>>
    \o <<"license:">> \o JsonString(<<record.license>>)
    \o <<"content_sha:">> \o JsonString(<<record.content_sha>>)
    \o <<"findings:", "{}">>
    \o <<"content:">> \o JsonString(record.content)
    \o <<"}">>

\* a write of the record without the line end
WriteArgNoNewline(record) == JsonDumps(record)

\* the string of `output_file_handle.write(json.dumps(output_data) + "\n")`
WriteArg(record) == JsonDumps(record) \o <<"\n">>

\* the characters in the output file after the writes so far, each write
\* call putting its string behind those of the calls before it
RECURSIVE FileAfter(_)
FileAfter(writes) ==
    IF writes = <<>> THEN <<>>
    ELSE FileAfter(SubSeq(writes, 1, Len(writes) - 1))
         \o WriteArg(writes[Len(writes)])

\* `if content:` on the value wait_for delivered
Truthy(c) == c.kind = "text" /\ c.text # <<>>

\* a loop that counts every entry, written or not
LoopNextCountAll(r, wrote, text) ==
    /\ out' = IF wrote THEN Append(out, RawRecord(r, idx[r], text)) ELSE out
    /\ count' = [count EXCEPT ![r] = count[r] + 1]
    /\ idx' = [idx EXCEPT ![r] = idx[r] + 1]
    /\ rpc' = [rpc EXCEPT ![r] =
                 IF idx[r] = Len(files[r]) THEN "returned" ELSE "await"]

\* one pass of the loop over blob_tasks is over
LoopNext(r, wrote, text) ==
    /\ out' = IF wrote THEN Append(out, RawRecord(r, idx[r], text)) ELSE out
    /\ count' = [count EXCEPT ![r] = IF wrote THEN count[r] + 1 ELSE count[r]]
    /\ idx' = [idx EXCEPT ![r] = idx[r] + 1]
    /\ rpc' = [rpc EXCEPT ![r] =
                 IF idx[r] = Len(files[r]) THEN "returned" ELSE "await"]

\* wait_for(task) delivers the result of the blob task the loop is at
AwaitBlob(r) ==
    LET t == BlobTask(r, idx[r]) IN
    /\ rpc[r] = "await"
    /\ fpc[t] = "returned"
    /\ LoopNext(r, Truthy(bres[t]), bres[t].text)
    /\ fpc' = [fpc EXCEPT ![t] = "done"]
    /\ lastResp' = NoResp
    /\ UNCHANGED <<pipeVars, unitVars>>
    /\ UNCHANGED <<mpc, found, permits, held, nreq, sleepTime, branch, lic,
                   tree, files, bres, results, total, lockouts>>

\* a loop without `except asyncio.TimeoutError`: the timeout leaves process_repo
BlobTimeoutAborts(r) ==
    LET t == BlobTask(r, idx[r]) IN
    /\ rpc[r] = "await"
    /\ fpc[t] \in {"acquire", "delay", "io", "sleep"}
    /\ permits' = permits + held[t]
    /\ held' = [held EXCEPT ![t] = 0]
    /\ nreq' = [nreq EXCEPT ![t] = 0]
    /\ fpc' = [fpc EXCEPT ![t] = "cancelled"]
    /\ sleepTime' = [sleepTime EXCEPT ![t] = 0]
    /\ rpc' = [rpc EXCEPT ![r] = "raised"]
    /\ lastResp' = NoResp
    /\ UNCHANGED <<pipeVars, unitVars>>
    /\ UNCHANGED <<mpc, found, branch, lic, tree, files, idx, count, bres, out,
                   results, total, lockouts>>

\* wait_for(task, timeout=60.0) expires: the blob task is cancelled, the
\* CancelledError unwinds its frames, the loop logs and goes on
BlobTimeout(r) ==
    LET t == BlobTask(r, idx[r]) IN
    /\ rpc[r] = "await"
    /\ fpc[t] \in {"acquire", "delay", "io", "sleep"}
    /\ permits' = permits + PermitsReleased(t, "cancel")
    /\ held' = [held EXCEPT ![t] = 0]
    /\ nreq' = [nreq EXCEPT ![t] = 0]
    /\ fpc' = [fpc EXCEPT ![t] = "cancelled"]
    /\ sleepTime' = [sleepTime EXCEPT ![t] = 0]
    /\ LoopNext(r, FALSE, <<>>)
    /\ lastResp' = NoResp
    /\ UNCHANGED <<pipeVars, unitVars>>
    /\ UNCHANGED <<mpc, found, branch, lic, tree, files, bres, results, total,
                   lockouts>>

(* -------------------------------- main ---------------------------------- *)
\* gather without return_exceptions: the first exception ends the wait
GatherFailFast ==
    /\ mpc = "gather"
    /\ \/ \E r \in 1..found : rpc[r] = "raised"
       \/ \A r \in 1..found : rpc[r] = "returned"
    /\ results' = [r \in RepoIds |->
                     IF r > found THEN results[r]
                     ELSE IF rpc[r] = "raised" THEN [kind |-> "exception", n |-> 0]
                     ELSE IF rpc[r] = "returned" THEN [kind |-> "count", n |-> count[r]]
                     ELSE results[r]]
    /\ total' = total
    /\ mpc' = "done"
    /\ lastResp' = NoResp
    /\ UNCHANGED <<pipeVars, unitVars>>
    /\ UNCHANGED <<found, permits, fpc, held, nreq, sleepTime, rpc, branch, lic,
                   tree, files, idx, count, bres, out, lockouts>>

\* asyncio.gather(*repo_tasks, return_exceptions=True) returns once every
\* process_repo has returned or raised; the summary loop adds up the counts
Gather ==
    /\ mpc = "gather"
    /\ \A r \in 1..found : rpc[r] \in {"returned", "raised"}
    /\ results' = [r \in RepoIds |->
                     IF r > found THEN results[r]
                     ELSE IF rpc[r] = "raised" THEN [kind |-> "exception", n |-> 0]
                     ELSE [kind |-> "count", n |-> count[r]]]
    /\ total' = SumOver([r \in RepoIds |->
                           IF r <= found /\ rpc[r] = "returned" THEN count[r] ELSE 0],
                        RepoIds)
    /\ mpc' = "done"
    /\ lastResp' = NoResp
    /\ UNCHANGED <<pipeVars, unitVars>>
    /\ UNCHANGED <<found, permits, fpc, held, nreq, sleepTime, rpc, branch, lic,
                   tree, files, idx, count, bres, out, lockouts>>

CrawlNext(env) ==
    \/ SearchAcquire
    \/ SearchIssue
    \/ SearchRespond(env)
    \/ \E t \in ApiTasks : Acquire(t)
    \/ \E t \in ApiTasks : Issue(t)
    \/ \E t \in ApiTasks : RateLimited(t, env)
    \/ \E t \in ApiTasks : Retry(t)
    \/ \E r \in RepoIds : RepoInfoReturn(r, env)
    \/ \E r \in RepoIds : TreeReturn(r, env)
    \/ \E r \in RepoIds, i \in FileIdx : BlobReturn(r, i, env)
    \/ \E r \in RepoIds : AwaitBlob(r)
    \/ \E r \in RepoIds : BlobTimeout(r)
    \/ Gather

\* a whole crawl against a plain server: repositories that are licensed MIT
\* or carry a null spdx_id, blobs that decode, have no content or are no
\* JSON object
CrawlEnv ==
    Env(0..MaxFound,
        {i \in RepoInfos : i.license \in {"MIT", NullSpdx}},
        TreesUpTo(MaxTree),
        {b \in BlobBodies : ~b.content \/ (b.padOK /\ b.payload = <<"xFF", "\n">>)},
        PlainShells)
\* one repository against a server that sends every response
FetchEnv == Env({0, 1}, RepoInfos, TreesUpTo(MaxTree), BlobBodies, AllShells)

Init == CrawlInit /\ PipeIdle /\ UnitIdle
Next == CrawlNext(CrawlEnv)
Spec == Init /\ [][Next]_vars

FetchNext == CrawlNext(FetchEnv)
FetchSpec == Init /\ [][FetchNext]_vars

(* ------------------- the file filter of process_repo -------------------- *)
\* tree entries that differ from a relevant one in one field: the path (an
\* upper-case name, an excluded directory in either case, names that only
\* contain an excluded name, other suffixes, no path at all), the size (None,
\* 0, 1, the limit, one more) or the type
UnitPaths ==
    {<<"a.py">>, <<"B.PY">>, <<"src", "a.py">>, <<"tests", "a.py">>,
     <<"Tests", "a.py">>, <<"mytests", "a.py">>, <<"src", "docs", "a.py">>,
     <<"docs.py">>, <<"README.md">>, <<"a.pyc">>, <<"">>}
UnitSizes == {Absent, 0, 1, MAX_FILE_SIZE, MAX_FILE_SIZE + 1}
UnitTypes == {"blob", "tree", "commit"}
UnitEntry(p, n, t) == [path |-> p, size |-> n, type |-> t, sha |-> "sha_u"]
UnitEntries ==
    {UnitEntry(p, 120, "blob") : p \in UnitPaths}
    \cup {UnitEntry(<<"src", "a.py">>, n, "blob") : n \in UnitSizes}
    \cup {UnitEntry(<<"src", "a.py">>, 120, t) : t \in UnitTypes}
UnitTrees == UNION {[1..n -> UnitEntries] : n \in 0..MaxUnitTree}

\* is_file_relevant is called on every entry of the tree
CheckEntries ==
    /\ upc = "ready" /\ verdicts = <<>> /\ tree_data # <<>>
    /\ verdicts' = [i \in DOMAIN tree_data |-> is_file_relevant(tree_data[i])]
    /\ UNCHANGED <<upc, tree_data, blob_tasks, scoreVars>>
    /\ UNCHANGED <<crawlVars, pipeVars>>

\* process_repo from the tree on: the loop that fills files_to_process, and
\* one blob task per entry of files_to_process
SelectFiles ==
    /\ upc = "ready"
    /\ blob_tasks' = FilesToProcess(tree_data, <<>>)
    /\ upc' = "done"
    /\ UNCHANGED <<tree_data, verdicts, scoreVars>>
    /\ UNCHANGED <<crawlVars, pipeVars>>

FilterInit ==
    /\ CrawlInit
    /\ PipeIdle
    /\ upc = "ready"
    /\ tree_data \in UnitTrees
    /\ verdicts = <<>>
    /\ blob_tasks = <<>>
    /\ ScoreIdle

FilterNext == CheckEntries \/ SelectFiles
FilterSpec == FilterInit /\ [][FilterNext]_vars

(* ------------------------- score_and_annotate --------------------------- *)
\* content.splitlines() by kind: a line is blank (strip() is empty), a comment
\* (strip() starts with "#") or code
LineKinds == {"code", "comment", "blank"}
IsCode(k) == k = "code"
IsComment(k) == k = "comment"
ScoreRecords ==
    {[lines |-> l, has_tests_keyword |-> kw] :
        l \in UNION {[1..n -> LineKinds] : n \in 0..MaxLines}, kw \in BOOLEAN}
    \ {[lines |-> <<>>, has_tests_keyword |-> TRUE]}

\* round(a / b, 0) the way Python rounds, halves to the even neighbour
RoundHalfEven(a, b) ==
    LET q == a \div b
        r == a % b
    IN  IF 2 * r < b THEN q
        ELSE IF 2 * r > b THEN q + 1
        ELSE IF q % 2 = 0 THEN q ELSE q + 1

\* the score before the clamp as the fraction num / den:
\* density * 0.5, + 0.2 if 0.05 < comment_ratio < 0.3, + 0.3 for a keyword
RawScore(record) ==
    LET total_lines == Len(record.lines)
        code_lines == Len(SelectSeq(record.lines, IsCode))
        comment_lines == Len(SelectSeq(record.lines, IsComment))
        den == IF total_lines > 0 THEN 10 * total_lines ELSE 10
        unit == den \div 10
        base == IF total_lines > 0 THEN 5 * code_lines ELSE 0
        inRange == /\ total_lines > 0
                   /\ 20 * comment_lines > total_lines
                   /\ 10 * comment_lines < 3 * total_lines
    IN  [num |-> base + (IF inRange THEN 2 * unit ELSE 0)
                      + (IF record.has_tests_keyword THEN 3 * unit ELSE 0),
         den |-> den]

\* max(0.0, min(1.0, score))
Clamp(score) == [score EXCEPT !.num = Max(0, Min(score.den, score.num))]

\* round(score, 3), in thousandths
Round3(score) == RoundHalfEven(1000 * score.num, score.den)

\* a score that adds 0.5 for every code line and is not clamped
score_and_annotate_unbounded(record) ==
    Round3([num |-> 5 * Len(SelectSeq(record.lines, IsCode)), den |-> 10])

\* record["quality_score"] of score_and_annotate(record)
score_and_annotate(record) == Round3(Clamp(RawScore(record)))

\* stage 2 calls score_and_annotate on a record
Score ==
    /\ spc = "ready"
    /\ quality_score' = score_and_annotate(scored_record)
    /\ spc' = "done"
    /\ UNCHANGED <<scored_record, upc, tree_data, verdicts, blob_tasks>>
    /\ UNCHANGED <<crawlVars, pipeVars>>

ScoreInit ==
    /\ CrawlInit
    /\ PipeIdle
    /\ upc = "idle"
    /\ tree_data = <<>>
    /\ verdicts = <<>>
    /\ blob_tasks = <<>>
    /\ spc = "ready"
    /\ scored_record \in ScoreRecords
    /\ quality_score = 0

ScoreNext == Score
ScoreSpec == ScoreInit /\ [][ScoreNext]_vars

(* ------------------------ process_pipeline.py --------------------------- *)
\* k newline characters
RECURSIVE Newlines(_)
Newlines(k) == IF k = 0 THEN <<>> ELSE <<"\n">> \o Newlines(k - 1)

\* the `content` of a raw record: the key is absent, null, or a string (a
\* sequence of characters; "uDC80" is a lone surrogate, which JSON can carry)
AbsentContent == [kind |-> "absent", text |-> <<>>]
NullContent == [kind |-> "null", text |-> <<>>]
Str(text) == [kind |-> "str", text |-> text]
RawContents ==
    {AbsentContent, NullContent, Str(<<>>),
     Str(<<"a">> \o Newlines(MIN_FILE_LINES - 2)),
     Str(<<"a">> \o Newlines(MIN_FILE_LINES - 1)),
     Str(<<"a">> \o Newlines(MIN_FILE_LINES)),
     Str(<<"?">> \o Newlines(MIN_FILE_LINES - 1)),
     Str(<<"uDC80">> \o Newlines(MIN_FILE_LINES - 1))}

\* the lines of a raw stream: records of two repositories, and a line that is
\* no JSON
BadLine == [json |-> FALSE, repo |-> 0, path |-> "", content |-> AbsentContent]
RawLines ==
    {[json |-> TRUE, repo |-> src[1], path |-> src[2], content |-> c] :
        src \in {<<1, "p.py">>, <<2, "q.py">>}, c \in RawContents}
    \cup {BadLine}
RawStreams == UNION {[1..n -> RawLines] : n \in 0..MaxRaw}

\* content.count("\n")
RECURSIVE CountNewlines(_)
CountNewlines(text) ==
    IF text = <<>> THEN 0
    ELSE (IF Head(text) = "\n" THEN 1 ELSE 0) + CountNewlines(Tail(text))

\* content.encode("utf-8", errors="replace"): a lone surrogate becomes "?"
EncodeUtf8(text) ==
    [i \in DOMAIN text |-> IF text[i] = "uDC80" THEN "?" ELSE text[i]]

\* hashlib.sha256(...).hexdigest(): one digest per byte string
calculate_content_hash(text) == <<"sha256", EncodeUtf8(text)>>

\* a filter that never adds to seen_hashes
AddSeenNever(seen, h) == seen

\* `if settings.DEDUPLICATION_SCOPE == "file": seen_hashes.add(content_hash)`
AddSeen(seen, h) ==
    IF dedup_scope = "file" THEN seen \cup {h} ELSE seen

\* a filter that adds the hash to seen_hashes before the line count is tested
filter_and_sanitize_add_early(record, seen) ==
    LET content == record.content
        line_count == CountNewlines(content.text) + 1
        content_hash == calculate_content_hash(content.text)
        rejected == [kept |-> FALSE, seen |-> seen, hash |-> <<>>, lines |-> 0,
                     hashed |-> FALSE]
    IN  IF content.kind # "str" \/ content.text = <<>> THEN rejected
        ELSE IF content_hash \in seen THEN [rejected EXCEPT !.hashed = TRUE]
        ELSE IF line_count < MIN_FILE_LINES
             THEN [rejected EXCEPT !.seen = AddSeen(seen, content_hash),
                                   !.hashed = TRUE]
        ELSE [kept |-> TRUE, seen |-> AddSeen(seen, content_hash),
              hash |-> content_hash, lines |-> line_count, hashed |-> TRUE]

\* filter_and_sanitize(record, seen_hashes): whether the record is returned,
\* the record with its added fields, and seen_hashes after the call
filter_and_sanitize(record, seen) ==
    LET content == record.content
        line_count == CountNewlines(content.text) + 1
        content_hash == calculate_content_hash(content.text)
        rejected == [kept |-> FALSE, seen |-> seen, hash |-> <<>>, lines |-> 0,
                     hashed |-> FALSE]
    IN  IF content.kind # "str" \/ content.text = <<>> THEN rejected
        ELSE IF line_count < MIN_FILE_LINES THEN rejected
        ELSE IF content_hash \in seen THEN [rejected EXCEPT !.hashed = TRUE]
        ELSE [kept |-> TRUE, seen |-> AddSeen(seen, content_hash),
              hash |-> content_hash, lines |-> line_count, hashed |-> TRUE]

\* the record filter_and_sanitize returns
Processed(record, res) ==
    [repo |-> record.repo, path |-> record.path, content |-> record.content,
     processed_content_hash |-> res.hash, line_count |-> res.lines]

\* a stage that puts the record it keeps in front of the ones kept before
KeepInFront(records, record) == <<record>> \o records

\* `processed_records.append(processed_record)`
Keep(records, record) == Append(records, record)

\* a run_pipeline that keeps the seen set of the call before
PipelineStartKeepSeen ==
    /\ ppc = "idle"
    /\ ppc' = "stage1"
    /\ pos' = 0
    /\ processed_records' = <<>>
    /\ seen_content_hashes' = seen_content_hashes
    /\ records_read' = 0
    /\ records_filtered' = 0
    /\ records_deduplicated' = 0
    /\ hash_args' = {}
    /\ runs' = runs + 1
    /\ UNCHANGED <<raw, dedup_scope, previous_output>>
    /\ UNCHANGED <<crawlVars, unitVars>>

\* run_pipeline is called: its locals are initialised and the raw file is
\* opened
PipelineStart ==
    /\ ppc = "idle"
    /\ ppc' = "stage1"
    /\ pos' = 0
    /\ processed_records' = <<>>
    /\ seen_content_hashes' = {}
    /\ records_read' = 0
    /\ records_filtered' = 0
    /\ records_deduplicated' = 0
    /\ hash_args' = {}
    /\ runs' = runs + 1
    /\ UNCHANGED <<raw, dedup_scope, previous_output>>
    /\ UNCHANGED <<crawlVars, unitVars>>

\* one pass of `for line in infile`
ReadLine ==
    /\ ppc = "stage1" /\ pos < Len(raw)
    /\ LET line == raw[pos + 1]
           res == filter_and_sanitize(line, seen_content_hashes)
           \* raw_record.get("content", ""): "" only when the key is absent
           temp == IF line.content.kind = "absent" THEN <<>> ELSE line.content.text
           got == IF line.content.kind = "absent" THEN Str(<<>>) ELSE line.content
           \* calculate_content_hash(None) raises AttributeError
           crash == line.json /\ ~res.kept /\ line.content.kind = "null"
           dup == calculate_content_hash(temp) \in res.seen
       IN
       /\ pos' = pos + 1
       /\ records_read' = records_read + 1
       /\ seen_content_hashes' = IF line.json THEN res.seen ELSE seen_content_hashes
       /\ processed_records' =
            IF line.json /\ res.kept
            THEN Keep(processed_records, Processed(line, res))
            ELSE processed_records
       /\ records_deduplicated' =
            IF line.json /\ ~res.kept /\ ~crash /\ dup
            THEN records_deduplicated + 1 ELSE records_deduplicated
       /\ records_filtered' =
            IF line.json /\ ~res.kept /\ ~crash /\ ~dup
            THEN records_filtered + 1 ELSE records_filtered
       /\ hash_args' =
            IF ~line.json THEN hash_args
            ELSE hash_args
                 \cup (IF res.hashed THEN {line.content} ELSE {})
                 \cup (IF ~res.kept THEN {got} ELSE {})
       /\ ppc' = IF crash THEN "crashed" ELSE ppc
    /\ UNCHANGED <<raw, dedup_scope, runs, previous_output>>
    /\ UNCHANGED <<crawlVars, unitVars>>

\* the raw file is read to its end: stage 1 is over
Stage1End ==
    /\ ppc = "stage1" /\ pos = Len(raw)
    /\ ppc' = IF processed_records = <<>> THEN "done" ELSE "stage2"
    /\ UNCHANGED <<raw, pos, seen_content_hashes, processed_records,
                   records_read, records_filtered, records_deduplicated,
                   dedup_scope, hash_args, runs, previous_output>>
    /\ UNCHANGED <<crawlVars, unitVars>>

\* run_pipeline over any raw stream of at most MaxRaw lines
PipelineInit ==
    /\ CrawlInit
    /\ UnitIdle
    /\ raw \in RawStreams
    /\ ppc = "idle"
    /\ pos = 0
    /\ seen_content_hashes = {}
    /\ processed_records = <<>>
    /\ records_read = 0
    /\ records_filtered = 0
    /\ records_deduplicated = 0
    /\ dedup_scope = DEDUPLICATION_SCOPE
    /\ hash_args = {}
    /\ runs = 0
    /\ previous_output = <<>>

PipelineNext == PipelineStart \/ ReadLine \/ Stage1End
PipelineSpec == PipelineInit /\ [][PipelineNext]_vars

\* the script is run once more on the same raw file
RunAgain ==
    /\ ppc \in {"stage2", "done", "crashed"}
    /\ runs < MaxRuns
    /\ previous_output' = processed_records
    /\ ppc' = "idle"
    /\ UNCHANGED <<raw, pos, seen_content_hashes, processed_records,
                   records_read, records_filtered, records_deduplicated,
                   dedup_scope, hash_args, runs>>
    /\ UNCHANGED <<crawlVars, unitVars>>

RerunNext == PipelineNext \/ RunAgain
RerunSpec == PipelineInit /\ [][RerunNext]_vars

\* run_pipeline with settings.DEDUPLICATION_SCOPE = "repo", the other value
\* the comment in settings.py names
RepoScopeInit ==
    /\ CrawlInit
    /\ UnitIdle
    /\ raw \in RawStreams
    /\ ppc = "idle"
    /\ pos = 0
    /\ seen_content_hashes = {}
    /\ processed_records = <<>>
    /\ records_read = 0
    /\ records_filtered = 0
    /\ records_deduplicated = 0
    /\ dedup_scope = "repo"
    /\ hash_args = {}
    /\ runs = 0
    /\ previous_output = <<>>

RepoScopeSpec == RepoScopeInit /\ [][PipelineNext]_vars

(* ============================== claims ================================== *)
RecordsOf(r) == {k \in DOMAIN out : out[k].repo = r}
Finished(t) == fpc[t] \in {"idle", "returned", "cancelled", "done"}
\* the entries of files_to_process the loop of process_repo is through with
Passed(r) == {i \in DOMAIN files[r] : i < idx[r]}
Fetched(r, i) == fpc[BlobTask(r, i)] = "done" /\ Truthy(bres[BlobTask(r, i)])
RecordsFor(r, i) ==
    {k \in RecordsOf(r) : out[k].path = files[r][i].path}

\* C1: under the global scope ("file"), at every point of run_pipeline and so
\* after it has consumed the raw stream, no two kept records carry the same
\* content hash.
C1_NoDuplicateHashes ==
    DEDUPLICATION_SCOPE = "file" =>
        \A i, j \in DOMAIN processed_records :
            i # j => processed_records[i].processed_content_hash
                     # processed_records[j].processed_content_hash

\* the stream is consumed; it held the same content for two repositories,
\* and different contents with one hash, and one record was kept
C1_Witness ==
    /\ ppc = "stage2" /\ pos = Len(raw) /\ Len(raw) = MaxRaw
    /\ Len(processed_records) = 1
    /\ \E i, j \in DOMAIN raw :
         /\ i < j /\ raw[i].repo # raw[j].repo
         /\ raw[i].content = raw[j].content
         /\ raw[i].content.kind = "str"
         /\ CountNewlines(raw[i].content.text) + 1 >= MIN_FILE_LINES

\* C2: at every moment of a crawl the frames inside `async with semaphore`
\* (in the polite delay, in network I/O or in a rate-limit sleep), counted
\* over the search, all repositories and all blob fetches, number at most
\* MAX_CONCURRENT_REQUESTS.
C2_GateBound == HeldTotal <= MAX_CONCURRENT_REQUESTS

\* the gate is full with frames of two repositories, one of them in a
\* rate-limit sleep, while a blob task waits for a permit
C2_Witness ==
    /\ permits = 0
    /\ \E t, u \in ApiTasks :
         /\ t[2] # u[2]
         /\ fpc[t] = "sleep" /\ fpc[u] \in {"delay", "io"}
    /\ \E w \in BlobTasks : fpc[w] = "acquire" /\ held[w] = 0

\* C3: a task that is out of make_api_request (returned on whatever path, or
\* cancelled) is inside no `async with semaphore`, and every frame that left
\* one gave its permit back: the free permits and the frames inside add up to
\* the capacity, so the gate is full again once all fetches are over.
C3_PermitsReleased ==
    /\ \A t \in Tasks : Finished(t) => held[t] = 0
    /\ permits + HeldTotal = MAX_CONCURRENT_REQUESTS
    /\ (\A t \in Tasks : Finished(t)) => permits = MAX_CONCURRENT_REQUESTS

\* the run is over; a blob task was cancelled, the server had reported zero
\* quota, a record was written, and the gate is full
C3_Witness ==
    /\ mpc = "done" /\ found = 1
    /\ \A t \in Tasks : Finished(t)
    /\ fpc[BlobTask(1, 1)] = "cancelled"
    /\ fpc[BlobTask(1, 2)] = "done"
    /\ lockouts = MaxLockouts
    /\ permits = MAX_CONCURRENT_REQUESTS

\* C4: one logical fetch sleeps and retries once: it issues at most two
\* requests, and after its retried request it is never in a rate-limit sleep
\* again.
C4_OneRetry ==
    \A t \in ApiTasks :
        /\ nreq[t] <= 2
        /\ ~(fpc[t] = "sleep" /\ nreq[t] >= 2)

\* C5: when the batch is over every repository of it has returned or raised,
\* has its own entry in results (its count, or the exception), and the
\* records of every repository that returned are in the output, whatever
\* happened to the others.
C5_FailureIsolation ==
    (mpc = "done" /\ found > 0) =>
        \A r \in 1..found :
            /\ rpc[r] \in {"returned", "raised"}
            /\ rpc[r] = "raised" => results[r].kind = "exception"
            /\ rpc[r] = "returned" =>
                 /\ results[r] = [kind |-> "count", n |-> count[r]]
                 /\ Cardinality(RecordsOf(r)) = count[r]
                 /\ \A i \in DOMAIN files[r] :
                      Fetched(r, i) => RecordsFor(r, i) # {}

\* one repository raised, its sibling wrote a record and returned its count
C5_Witness ==
    /\ mpc = "done" /\ found = 2
    /\ \E r, q \in RepoIds :
         /\ rpc[r] = "raised" /\ results[r].kind = "exception"
         /\ rpc[q] = "returned" /\ count[q] >= 1
         /\ results[q] = [kind |-> "count", n |-> count[q]]
         /\ RecordsOf(q) # {}

\* the task whose response the latest step handled
Handled(t) == lastResp.task = t
ZeroQuota == lastResp.remaining = "0" /\ lastResp.reset # Absent
CallOver(t) == fpc[t] \in {"returned", "done"} /\ held[t] = 0 /\ nreq[t] = 0

\* C6: after a 403 whose headers report zero quota (Remaining 0, with its
\* Reset) the task is in the sleep of the computed duration, still inside the
\* gate, and what follows the sleep is the recursive call, which issues the
\* request once more; after a 403 whose Remaining is not 0 the call is over
\* with None, without a sleep and without another request.
C6_Forbidden ==
    /\ [](\A t \in ApiTasks :
            (Handled(t) /\ lastResp.status = 403) =>
                /\ ZeroQuota =>
                     /\ fpc[t] = "sleep" /\ held[t] >= 1
                     /\ sleepTime[t] = Max(0, lastResp.reset - lastResp.now)
                                       + RATE_LIMIT_SLEEP_BUFFER
                /\ lastResp.remaining # "0" =>
                     /\ lastResp.outcome = "none"
                     /\ CallOver(t) /\ sleepTime[t] = 0)
    /\ [][\A t \in ApiTasks :
            /\ (fpc[t] = "sleep" /\ fpc'[t] # "sleep") =>
                 \/ fpc'[t] = "acquire" /\ nreq'[t] = nreq[t] /\ held'[t] = held[t]
                 \/ fpc'[t] = "cancelled"
            /\ nreq'[t] <= nreq[t] + 1]_vars

\* a 403 with Remaining 0 and a Reset ten seconds ahead: the task sleeps 15
C6_Witness ==
    \E t \in ApiTasks :
        /\ Handled(t) /\ lastResp.status = 403 /\ ZeroQuota
        /\ lastResp.reset = lastResp.now + 10
        /\ fpc[t] = "sleep" /\ sleepTime[t] = 15

\* C7: after a 404, a 5xx, a connection error or a timeout that does not
\* report zero quota the call is over with None and no further request; a
\* task enters the rate-limit sleep only on a response with Remaining 0, the
\* recursive call is entered only from that sleep, and a second request of a
\* logical fetch is issued only by a recursive call.
C7_NoRetryOnErrors ==
    /\ [](\A t \in ApiTasks :
            (/\ Handled(t)
             /\ \/ lastResp.status \in {404, 500}
                \/ lastResp.error \in {"connection", "timeout"}
             /\ lastResp.remaining # "0") =>
                (lastResp.outcome = "none" /\ CallOver(t)))
    /\ [][\A t \in ApiTasks :
            /\ (fpc'[t] = "sleep" /\ fpc[t] # "sleep") =>
                 (lastResp'.task = t /\ lastResp'.remaining = "0")
            /\ (fpc'[t] = "acquire" /\ fpc[t] # "acquire" /\ held'[t] >= 1) =>
                 fpc[t] = "sleep"
            /\ (nreq'[t] > nreq[t] /\ nreq[t] >= 1) =>
                 (held[t] = nreq[t] + 1)]_vars

\* a blob request answered 404 without rate-limit headers: the call is over
C7_Witness ==
    \E t \in BlobTasks :
        /\ Handled(t) /\ lastResp.status = 404 /\ lastResp.remaining = "absent"
        /\ lastResp.outcome = "none" /\ fpc[t] = "returned"

NoBlobRequest(r) == \A i \in FileIdx : fpc[BlobTask(r, i)] = "idle"
\* the license is not on the allow-list, compared in lower case, and is not
\* NOASSERTION
Unacceptable(l) ==
    /\ REQUIRED_LICENSES # {}
    /\ l \notin {"None", NullSpdx}
    /\ Lower(l) \notin REQUIRED_LICENSES
    /\ l # "NOASSERTION"

C9_OneRecordPerEntry ==
    \A r \in RepoIds :
        /\ \A i \in Passed(r) :
             /\ Cardinality(RecordsFor(r, i)) = (IF Fetched(r, i) THEN 1 ELSE 0)
             /\ \A k \in RecordsFor(r, i) :
                  out[k].content = bres[BlobTask(r, i)].text
        /\ RecordsOf(r) = UNION {RecordsFor(r, i) : i \in Passed(r)}
        /\ count[r] = Cardinality(RecordsOf(r))

\* a repository with two selected entries, both written
C9_Witness ==
    /\ rpc[1] = "returned" /\ Len(files[1]) = 2
    /\ count[1] = 2 /\ Cardinality(RecordsOf(1)) = 2

\* the entries whose file was dropped: the task was cancelled by the timeout,
\* or delivered None, an empty text or an exception
Dropped(r) == {i \in Passed(r) : ~Fetched(r, i)}

\* C10: a repository whose blob tasks were created never raises, whatever
\* happens to its blob fetches; every entry passed whose fetch delivered
\* content is written, and once it has returned its count is the number of
\* selected entries less the dropped ones.
C10_FileIsolation ==
    \A r \in RepoIds :
        files[r] # <<>> =>
            /\ rpc[r] \in {"await", "returned"}
            /\ \A i \in Passed(r) \ Dropped(r) : RecordsFor(r, i) # {}
            /\ rpc[r] = "returned" =>
                 /\ Passed(r) = DOMAIN files[r]
                 /\ count[r] = Len(files[r]) - Cardinality(Dropped(r))

\* the first of two files timed out, the second was written
C10_Witness ==
    /\ rpc[1] = "returned" /\ Len(files[1]) = 2
    /\ fpc[BlobTask(1, 1)] = "cancelled"
    /\ Fetched(1, 2) /\ count[1] = 1
    /\ RecordsFor(1, 2) # {}

\* what the filter is to say of an entry of the catalogue: a blob, a size in
\* (0, MAX_FILE_SIZE], a name ending in .py and no segment that is an
\* excluded directory, both whatever the case of the letters
AllowedSuffix(e) == e.path[Len(e.path)] \in {"a.py", "B.PY", "docs.py"}
ExcludedSegment(e) == \E i \in DOMAIN e.path : e.path[i] \in {"tests", "Tests", "docs"}
Accepted(e) ==
    /\ e.type = "blob"
    /\ e.size # Absent /\ 0 < e.size /\ e.size <= MAX_FILE_SIZE
    /\ AllowedSuffix(e)
    /\ ~ExcludedSegment(e)
FirstOf(q, n) == SubSeq(q, 1, Min(n, Len(q)))

\* C11: the blob tasks process_repo creates for a tree are the first
\* min(MAX_FILES_PER_REPO, number of relevant entries) relevant entries of
\* the tree, in tree order; they are never more than MAX_FILES_PER_REPO.
C11_FirstRelevantEntries ==
    upc = "done" =>
        /\ blob_tasks = FirstOf(SelectSeq(tree_data, is_file_relevant),
                                MAX_FILES_PER_REPO)
        /\ Len(blob_tasks) <= MAX_FILES_PER_REPO

\* a tree with more relevant entries than the cap: tasks for the first two
C11_Witness ==
    /\ upc = "done"
    /\ Len(SelectSeq(tree_data, is_file_relevant)) > MAX_FILES_PER_REPO
    /\ tree_data[1] # tree_data[2]
    /\ blob_tasks = <<tree_data[1], tree_data[2]>>

SameContentBefore(i) ==
    {j \in 1..(i - 1) : raw[j].json /\ raw[j].content = raw[i].content}
KeptFrom(line) ==
    {k \in DOMAIN processed_records :
        /\ processed_records[k].repo = line.repo
        /\ processed_records[k].path = line.path
        /\ processed_records[k].content = line.content}

\* C13: no kept record has a content of exactly MIN_FILE_LINES - 1 newline
\* characters, and every line read whose content has exactly MIN_FILE_LINES
\* newline characters and was not read before is kept.
C13_LineBoundary ==
    /\ \A k \in DOMAIN processed_records :
         CountNewlines(processed_records[k].content.text) # MIN_FILE_LINES - 1
    /\ \A i \in 1..pos :
         (/\ raw[i].json /\ raw[i].content.kind = "str"
          /\ CountNewlines(raw[i].content.text) = MIN_FILE_LINES
          /\ SameContentBefore(i) = {}) => KeptFrom(raw[i]) # {}

Rejectable(c) == c.kind \in {"null", "absent"} \/ (c.kind = "str" /\ c.text = <<>>)

\* C14: the run never stops on a record, no kept record has a null, absent
\* or empty content, and calculate_content_hash is never called with the
\* content of such a record.
C14_NoContentRejected ==
    /\ ppc # "crashed"
    /\ \A k \in DOMAIN processed_records : ~Rejectable(processed_records[k].content)
    /\ \A c \in hash_args : ~Rejectable(c)

\* C15: at the end of stage 1 the lines read are the kept records plus the
\* lines counted as filtered or deduplicated (run_pipeline has no third
\* counter for lines that are no JSON).
C15_EveryLineCounted ==
    ppc \in {"stage2", "done"} =>
        records_read = Len(processed_records) + records_filtered
                       + records_deduplicated

\* C16: with the scope "repo" no two kept records of one repository carry the
\* same hash, and a content that was read for two repositories is kept once
\* for each of them.
C16_PerRepositoryScope ==
    dedup_scope = "repo" =>
        /\ \A i, j \in DOMAIN processed_records :
             (/\ i # j
              /\ processed_records[i].repo = processed_records[j].repo) =>
                 processed_records[i].processed_content_hash
                 # processed_records[j].processed_content_hash
        /\ \A i, j \in 1..pos :
             (/\ raw[i].json /\ raw[j].json
              /\ raw[i].repo # raw[j].repo
              /\ raw[i].content = raw[j].content
              /\ raw[i].content.kind = "str"
              /\ CountNewlines(raw[i].content.text) + 1 >= MIN_FILE_LINES) =>
                 (KeptFrom(raw[i]) # {} /\ KeptFrom(raw[j]) # {})

C18_ScoreInRange ==
    spc = "done" => (0 <= quality_score /\ quality_score <= 1000)

\* a content of code lines only with a test keyword: 0.5 + 0.3
C18_Witness ==
    /\ spc = "done"
    /\ Len(scored_record.lines) = MaxLines
    /\ \A i \in DOMAIN scored_record.lines : scored_record.lines[i] = "code"
    /\ scored_record.has_tests_keyword
    /\ quality_score = 800

\* C19: after a response of make_api_request with Remaining 0 (and its
\* Reset) the task is in a sleep of max(0, reset - now) + buffer: 15 for a
\* reset ten seconds ahead, the buffer for a reset in the past; after any
\* other response it is in no sleep, and no task sleeps for another time.
C19_SleepDuration ==
    /\ \A t \in ApiTasks :
         Handled(t) =>
            /\ (ZeroQuota /\ lastResp.reset > lastResp.now) =>
                  (/\ fpc[t] = "sleep"
                   /\ sleepTime[t] = lastResp.reset - lastResp.now
                                     + RATE_LIMIT_SLEEP_BUFFER)
            /\ (ZeroQuota /\ lastResp.reset <= lastResp.now) =>
                  (fpc[t] = "sleep" /\ sleepTime[t] = RATE_LIMIT_SLEEP_BUFFER)
            /\ lastResp.remaining # "0" =>
                  (fpc[t] # "sleep" /\ sleepTime[t] = 0)
    /\ \A t \in Tasks :
         IF fpc[t] = "sleep"
         THEN sleepTime[t] \in {RATE_LIMIT_SLEEP_BUFFER, RATE_LIMIT_SLEEP_BUFFER + 10}
         ELSE sleepTime[t] = 0

\* a 200 with Remaining 0 whose Reset is ten seconds in the past: the task
\* sleeps for the buffer
C19_Witness ==
    \E t \in ApiTasks :
        /\ Handled(t) /\ lastResp.status = 200 /\ ZeroQuota
        /\ lastResp.reset = lastResp.now - 10
        /\ fpc[t] = "sleep" /\ sleepTime[t] = RATE_LIMIT_SLEEP_BUFFER

\* C20: a blob fetch of a repository that has completed and whose result the
\* loop of process_repo has not taken yet is the one the loop takes next,
\* whatever the state of the fetches of the entries listed before it.
C20_EmittedAsCompleted ==
    \A r \in RepoIds : \A i \in DOMAIN files[r] :
        (rpc[r] = "await" /\ fpc[BlobTask(r, i)] = "returned") => idx[r] = i

\* a line that passes the filters other than the duplicate test
PassesOtherFilters(line) ==
    /\ line.json
    /\ line.content.kind = "str" /\ line.content.text # <<>>
    /\ CountNewlines(line.content.text) + 1 >= MIN_FILE_LINES
\* two lines carry the same content, byte for byte
SameBytes(a, b) == EncodeUtf8(a.content.text) = EncodeUtf8(b.content.text)
\* the positions, in the order of the raw stream, of the lines among the first
\* n that pass the other filters and have no such line of the same content
\* before them
RECURSIVE FirstOccurrences(_)
FirstOccurrences(n) ==
    IF n = 0 THEN <<>>
    ELSE IF /\ PassesOtherFilters(raw[n])
            /\ ~\E j \in 1..(n - 1) :
                   PassesOtherFilters(raw[j]) /\ SameBytes(raw[j], raw[n])
         THEN Append(FirstOccurrences(n - 1), n)
         ELSE FirstOccurrences(n - 1)

\* C21: under the scope "file" the kept records are, in the order of the raw
\* stream, exactly the lines read that pass the other filters and are the
\* first of their content, whatever their paths and repositories.
C21_FirstOccurrenceInOrder ==
    dedup_scope = "file" =>
        LET first == FirstOccurrences(pos) IN
        /\ Len(processed_records) = Len(first)
        /\ \A k \in DOMAIN processed_records :
             /\ k \in DOMAIN first
             /\ processed_records[k].repo = raw[first[k]].repo
             /\ processed_records[k].path = raw[first[k]].path
             /\ processed_records[k].content = raw[first[k]].content

\* three lines read: the third repeats the content of the first under another
\* path and repository, the second has another content; the first two are
\* kept, in that order
C21_Witness ==
    /\ dedup_scope = "file" /\ pos = 3
    /\ PassesOtherFilters(raw[1]) /\ PassesOtherFilters(raw[2])
    /\ raw[3].content = raw[1].content /\ raw[3].repo # raw[1].repo
    /\ raw[3].path # raw[1].path
    /\ ~SameBytes(raw[2], raw[1])
    /\ Len(processed_records) = 2
    /\ processed_records[1].repo = raw[1].repo
    /\ processed_records[2].content = raw[2].content

\* the tasks that wait at `async with semaphore` while a frame of theirs holds
\* a permit
WaitingWithPermit == {t \in Tasks : fpc[t] = "acquire" /\ held[t] > 0}

\* C22: the gate never locks up: no task waits to acquire a permit while it
\* holds one, so it never happens that no permit is free while every permit
\* is held by a task that itself waits to acquire.
C22_NoGateDeadlock ==
    ~(/\ permits = 0
      /\ WaitingWithPermit # {}
      /\ \A t \in Tasks : held[t] > 0 => t \in WaitingWithPermit)

\* the hashes of the records kept so far
KeptHashes ==
    {processed_records[k].processed_content_hash : k \in DOMAIN processed_records}

\* C23: under the scope "file" the seen set is at all times the set of the
\* hashes of the records kept so far; a line that is kept adds its own hash,
\* which was not in the set, and nothing else; a line that is rejected (no
\* content, too few lines, duplicate, no JSON) leaves the set as it was and
\* gets no added field.
C23_SeenSetFrame ==
    /\ [](dedup_scope = "file" => seen_content_hashes = KeptHashes)
    /\ [][(dedup_scope = "file" /\ ppc = "stage1" /\ pos' = pos + 1) =>
            LET line == raw[pos']
                res == filter_and_sanitize(line, seen_content_hashes)
                own == calculate_content_hash(line.content.text)
            IN  IF Len(processed_records') = Len(processed_records) + 1
                THEN /\ own \notin seen_content_hashes
                     /\ seen_content_hashes' = seen_content_hashes \cup {own}
                     /\ processed_records'[Len(processed_records')].content
                          = line.content
                ELSE /\ seen_content_hashes' = seen_content_hashes
                     /\ processed_records' = processed_records
                     /\ line.json => (res.hash = <<>> /\ res.lines = 0)]_vars

\* three lines read: one kept, one rejected as a duplicate, one rejected for
\* its line count; the seen set holds the one hash
C23_Witness ==
    /\ dedup_scope = "file" /\ pos = 3
    /\ Len(processed_records) = 1
    /\ records_deduplicated = 1 /\ records_filtered = 1
    /\ seen_content_hashes = {processed_records[1].processed_content_hash}
    /\ \E i \in 1..3 : /\ raw[i].content.kind = "str"
                        /\ raw[i].content.text # <<>>
                        /\ CountNewlines(raw[i].content.text) + 1 < MIN_FILE_LINES

\* C24: no call of make_api_request returns the body of a response with
\* Remaining 0, and no blob content comes from one; after such a response
\* (with its Reset), whatever its status and body, the task is in the sleep,
\* its call not over, and what follows the sleep is the recursive call: it
\* goes to the gate, and from there the request is issued once more.
C24_ZeroQuotaDiscarded ==
    /\ [](\A t \in ApiTasks :
            Handled(t) =>
                /\ lastResp.outcome = "json" => lastResp.remaining # "0"
                /\ lastResp.remaining = "0" =>
                     (t \in BlobTasks => ~Truthy(bres[t]))
                /\ ZeroQuota =>
                     /\ lastResp.outcome = "sleep" /\ fpc[t] = "sleep"
                     /\ ~CallOver(t) /\ nreq[t] >= 1)
    /\ [][\A t \in ApiTasks :
            /\ (fpc[t] = "sleep" /\ fpc'[t] # fpc[t]) =>
                 fpc'[t] \in {"acquire", "cancelled"}
            /\ (fpc[t] = "acquire" /\ held[t] >= 1 /\ fpc'[t] # fpc[t]) =>
                 fpc'[t] \in {"delay", "cancelled"}
            /\ (fpc[t] = "delay" /\ held[t] >= 2 /\ fpc'[t] # fpc[t]) =>
                 \/ fpc'[t] = "io" /\ nreq'[t] = nreq[t] + 1
                 \/ fpc'[t] = "cancelled"]_vars

\* a blob request answered 200 with a JSON body and Remaining 0: the task
\* sleeps and no content has been delivered
C24_Witness ==
    \E t \in BlobTasks :
        /\ Handled(t) /\ lastResp.status = 200 /\ lastResp.json
        /\ ZeroQuota /\ lastResp.reset = 110
        /\ fpc[t] = "sleep" /\ ~Truthy(bres[t])

\* the positions of the newline characters of a string
NewlinesAt(text) == {p \in DOMAIN text : text[p] = "\n"}

\* C25: every write to the output handle puts one whole line into the file
\* (its string holds one newline, its last character, also when the content
\* itself has newlines), so that under every interleaving of the repository
\* and blob tasks the file is the sequence of the records written, one per
\* line; the number of lines is the sum of the counts of the process_repo
\* calls, and at the end the total of the counts they returned.
C25_WholeLines ==
    /\ \A k \in DOMAIN out :
         NewlinesAt(WriteArg(out[k])) = {Len(WriteArg(out[k]))}
    /\ CountNewlines(FileAfter(out)) = Len(out)
    /\ CountNewlines(FileAfter(out)) = SumOver(count, RepoIds)
    /\ mpc = "done" =>
         /\ CountNewlines(FileAfter(out)) = total
         /\ total = SumOver([r \in RepoIds |->
                               IF results[r].kind = "count" THEN results[r].n
                               ELSE 0], RepoIds)

\* the batch is over; two repositories wrote three records in turn, the
\* content of each holding a newline
C25_Witness ==
    /\ mpc = "done" /\ Len(out) = 3 /\ total = 3
    /\ out[1].repo # out[2].repo /\ out[3].repo = out[1].repo
    /\ \A k \in DOMAIN out : NewlinesAt(out[k].content) # {}

====
